---------------------------- MODULE Spec2Model ----------------------------
(***************************************************************************)
(* Model of drivers/console/uart_mux.c: virtual UART channels (DLCIs)      *)
(* multiplexed over one real UART through the GSM mux adapter.             *)
(*                                                                         *)
(* The operations are modelled in groups, each with its specification:     *)
(*   - attach()/init_real_uart(), step by step, run by concurrent          *)
(*     application threads (SpecAttach);                                   *)
(*   - the transmit side of a channel: uart_mux_fifo_fill, the TX work     *)
(*     item, tx enable/disable (SpecTx);                                   *)
(*   - the receive side of a channel: uart_mux_recv, uart_mux_fifo_read,   *)
(*     rx enable/disable, the callback work item (SpecRx);                 *)
(*   - the device registry: uart_mux_alloc, uart_mux_find (SpecRegistry);  *)
(*   - attach() on a full pool of real UART slots (SpecPoolFull);          *)
(*   - uart_mux_send from two contexts (SpecSend);                         *)
(*   - uart_mux_fifo_read step by step against uart_mux_recv (SpecRxRace); *)
(*   - the ISR and the RX work item of a real UART (SpecRawRx);            *)
(*   - tx_ready across fill, drain, enable/disable, notifications and a    *)
(*     further attach() (SpecTxReady).                                     *)
(* Pointers are small integers, NULL is 0.                                 *)
(***************************************************************************)
EXTENDS Integers, Sequences, FiniteSets, TLC

(***************************************************************************)
(* Sizes.                                                                  *)
(***************************************************************************)
\* CONFIG_UART_MUX_REAL_DEVICE_COUNT: number of struct uart_mux slots
NumRealUarts == 2
\* CONFIG_UART_MUX_DEVICE_COUNT: number of muxed UART devices (DLCIs)
NumChans == 2
\* attach() calls made in a run, all threads together
MaxAttachCalls == 2
\* CONFIG_UART_MUX_RINGBUF_SIZE
RingSize == 3
\* longest buffer handed to fill / recv
MaxLen == 3
\* bytes the adapter delivers to a channel in a run
MaxDelivered == 5
\* uart_mux_alloc() calls made in a run, all threads together
MaxAllocCalls == 3
\* bytes uart_mux_send() puts on the line of one real UART in a run
MaxSent == 4

NULL == 0
Slots == 1..NumRealUarts
Chans == 1..NumChans
\* the real UART devices an application can name
Handles == {1, 2}
\* the application threads that call attach() concurrently
Threads == {1, 2}
\* byte values
Bytes == {1, 2}
\* DLCI addresses
Addrs == {1, 2}
\* a device pointer that is no muxed UART of uart_mux_data_devlist
UnknownDev == NumChans + 1

\* errno values
ENOENT == 2
ENOMEM == 12
EINVAL == 22
ENODEV == 19
\* the errors gsm_dlci_create() reports
DlciErrors == {ENOMEM}

\* enum uart_mux_status_code
UART_MUX_UNKNOWN == "UNKNOWN"
UART_MUX_CONFIGURED == "CONFIGURED"
UART_MUX_CONNECTED == "CONNECTED"
UART_MUX_DISCONNECTED == "DISCONNECTED"

Min(a, b) == IF a < b THEN a ELSE b

RECURSIVE SeqsUpTo(_)
\* all byte sequences of length <= n
SeqsUpTo(n) ==
    IF n = 0 THEN {<< >>}
    ELSE LET S == SeqsUpTo(n - 1)
         IN  S \cup {Append(s, b) : s \in {x \in S : Len(x) = n - 1}, b \in Bytes}

Buffers == SeqsUpTo(MaxLen)

VARIABLES
    real_uart,      \* [Slots -> struct uart_mux]
    dev_data,       \* [Chans -> struct uart_mux_dev_data], flags and pointers
    tx_ringbuf,     \* [Chans -> ring]
    rx_ringbuf,     \* [Chans -> ring]
    workq,          \* uart_mux_workq: sequence of pending work items
    thr,            \* [Threads -> attach() call frame]
    stub,           \* counting stub of the adapter and of the real UART
    io,             \* the last I/O operation: what it returned or passed on
    hist,           \* [Chans -> bytes uart_mux_recv accepted, bytes read out]
    alloc,          \* uart_mux_alloc() call frames and the devices handed out
    lock,           \* [Slots -> owner of real_uart->lock]
    send,           \* [SendCtxs -> uart_mux_send() call frame]
    wire,           \* [Slots -> bytes uart_poll_out put on the line, with sender]
    rd,             \* uart_mux_fifo_read() call frame of the application
    uart_rx,        \* [Slots -> real_uart->rx_ringbuf]
    rxlog           \* [Slots -> bytes the ISR stored, bytes passed to the mux]

\* the state of the registry, transmit-lock and raw receive paths
ext == <<alloc, lock, send, wire, rd, uart_rx, rxlog>>

vars == <<real_uart, dev_data, tx_ringbuf, rx_ringbuf, workq, thr, stub, io, hist,
          ext>>

(***************************************************************************)
(* sys/ring_buffer.h, byte mode.  A ring is the index of its first stored  *)
(* byte in the backing array (head) and the stored bytes, oldest first.    *)
(***************************************************************************)
EmptyRing == [head |-> 0, data |-> << >>]

Rings == [head : 0..(RingSize - 1), data : SeqsUpTo(RingSize)]

ring_buf_space_get(r) == RingSize - Len(r.data)

ring_buf_is_empty(r) == Len(r.data) = 0

\* number of bytes ring_buf_put() accepts; the rest is dropped
ring_buf_put_count(r, bytes) == Min(Len(bytes), ring_buf_space_get(r))

ring_buf_put(r, bytes) ==
    [r EXCEPT !.data = @ \o SubSeq(bytes, 1, ring_buf_put_count(r, bytes))]

\* the contiguous span at the head: it ends at the end of the backing array
ring_buf_get_claim(r, size) ==
    SubSeq(r.data, 1, Min(size, Min(Len(r.data), RingSize - r.head)))

ring_buf_get_finish(r, n) ==
    [head |-> (r.head + n) % RingSize, data |-> SubSeq(r.data, n + 1, Len(r.data))]

RECURSIVE ring_buf_get_bytes(_, _)
\* the bytes ring_buf_get() copies out: claim after claim until size bytes
\* are copied or nothing is left
ring_buf_get_bytes(r, size) ==
    LET span == ring_buf_get_claim(r, size)
    IN  IF Len(span) = 0 THEN << >>
        ELSE span \o ring_buf_get_bytes(ring_buf_get_finish(r, Len(span)),
                                        size - Len(span))

ring_buf_get(r, size) == ring_buf_get_finish(r, Len(ring_buf_get_bytes(r, size)))

(***************************************************************************)
(* kernel work queue: a work item that is already pending is not queued    *)
(* a second time.                                                          *)
(***************************************************************************)
Work(kind, owner) == [work |-> kind, of |-> owner]

IsPending(q, w) == \E k \in 1..Len(q) : q[k] = w

k_work_submit_to_queue(q, w) == IF IsPending(q, w) THEN q ELSE Append(q, w)

(***************************************************************************)
(* Initial state: after uart_mux_init() of every device.                   *)
(***************************************************************************)
InitRealUart == [uart |-> NULL, mux |-> NULL, init_done |-> FALSE]

InitDevData ==
    [real_uart |-> NULL, status |-> UART_MUX_UNKNOWN, dlci |-> NULL, cb |-> NULL,
     rx_enabled |-> FALSE, tx_enabled |-> FALSE,
     rx_ready |-> FALSE, tx_ready |-> FALSE, in_use |-> FALSE]

InitThread ==
    [pc |-> "idle", mux_uart |-> NULL, uart |-> NULL, slot |-> NULL, i |-> 0,
     ret |-> 0]

InitStub ==
    [attach_calls |-> 0, named |-> {},
     create_calls |-> [h \in Handles |-> 0], create_failed |-> FALSE,
     irq_seqs |-> [h \in Handles |-> 0], fault |-> FALSE]

Io(op, c, ret, bytes, flag) ==
    [op |-> op, chan |-> c, ret |-> ret, bytes |-> bytes, flag |-> flag]

InitIo == Io("none", NULL, 0, << >>, FALSE)

InitHist == [accepted |-> << >>, read |-> << >>]

\* the contexts that reach uart_mux_send(): an application thread through
\* uart_mux_poll_out, the work queue thread through uart_mux_tx_work
SendCtxs == {"app", "worker"}
NoOwner == "none"

InitAllocFrame == [pc |-> "idle", i |-> 0, ret |-> NULL]

InitAlloc ==
    [frame |-> [t \in Threads |-> InitAllocFrame], calls |-> 0,
     returned |-> [c \in Chans |-> 0]]

InitSendFrame ==
    [pc |-> "idle", slot |-> NULL, buf |-> << >>, k |-> 0, calls |-> 0, ret |-> 0]

InitRead == [pc |-> "idle", chan |-> NULL, len |-> 0, empty |-> FALSE]

InitRxLog == [pushed |-> << >>, passed |-> << >>]

InitExt ==
    /\ alloc = InitAlloc
    /\ lock = [s \in Slots |-> NoOwner]
    /\ send = [x \in SendCtxs |-> InitSendFrame]
    /\ wire = [s \in Slots |-> << >>]
    /\ rd = InitRead
    /\ uart_rx = [s \in Slots |-> EmptyRing]
    /\ rxlog = [s \in Slots |-> InitRxLog]

Init ==
    /\ real_uart = [s \in Slots |-> InitRealUart]
    /\ dev_data = [c \in Chans |-> InitDevData]
    /\ tx_ringbuf = [c \in Chans |-> EmptyRing]
    /\ rx_ringbuf = [c \in Chans |-> EmptyRing]
    /\ workq = << >>
    /\ thr = [t \in Threads |-> InitThread]
    /\ stub = InitStub
    /\ io = InitIo
    /\ hist = [c \in Chans |-> InitHist]
    /\ InitExt

(***************************************************************************)
(* attach() and init_real_uart(), one shared-memory access per step.       *)
(***************************************************************************)
Return(t, value) ==
    [thr EXCEPT ![t].pc = "idle", ![t].ret = value, ![t].uart = NULL,
                ![t].slot = NULL, ![t].i = 0]

\* attach_enter with init_real_uart() entered before the device is looked up:
\* an unknown device binds the first slot and then gets -ENOENT
attach_enter_init_first(t, m, u) ==
    /\ thr[t].pc = "idle"
    /\ stub.attach_calls < MaxAttachCalls
    /\ stub' = [stub EXCEPT !.attach_calls = @ + 1,
                            !.named = IF m \in Chans /\ u # NULL THEN @ \cup {u} ELSE @]
    /\ thr' = IF m = NULL \/ u = NULL
                THEN [thr EXCEPT ![t].mux_uart = m, ![t].ret = 0 - EINVAL]
              ELSE IF m \notin Chans
                THEN [thr EXCEPT ![t].mux_uart = m, ![t].ret = 0 - ENOENT]
              ELSE [thr EXCEPT ![t].mux_uart = m, ![t].uart = u,
                               ![t].pc = "scan_bound", ![t].i = 1]
    /\ real_uart' = IF m # NULL /\ u # NULL /\ m \notin Chans
                      THEN [real_uart EXCEPT ![1].uart = u]
                      ELSE real_uart
    /\ UNCHANGED <<dev_data, tx_ringbuf, rx_ringbuf, workq, io, hist, ext>>

\* attach(): argument check and the walk of uart_mux_data_devlist
attach_enter(t, m, u) ==
    /\ thr[t].pc = "idle"
    /\ stub.attach_calls < MaxAttachCalls
    /\ stub' = [stub EXCEPT !.attach_calls = @ + 1,
                            !.named = IF m \in Chans /\ u # NULL THEN @ \cup {u} ELSE @]
    /\ thr' = IF m = NULL \/ u = NULL
                THEN [thr EXCEPT ![t].mux_uart = m, ![t].ret = 0 - EINVAL]
              ELSE IF m \notin Chans
                THEN [thr EXCEPT ![t].mux_uart = m, ![t].ret = 0 - ENOENT]
              ELSE [thr EXCEPT ![t].mux_uart = m, ![t].uart = u,
                               ![t].pc = "scan_bound", ![t].i = 1]
    /\ UNCHANGED <<real_uart, dev_data, tx_ringbuf, rx_ringbuf, workq, io, hist, ext>>

\* init_real_uart(): first loop, looks for the slot bound to uart
init_scan_bound(t) ==
    /\ thr[t].pc = "scan_bound"
    /\ LET i == thr[t].i
       IN  thr' = IF real_uart[i].uart = thr[t].uart
                    THEN [thr EXCEPT ![t].pc = "cas", ![t].slot = i, ![t].i = 0]
                  ELSE IF i = NumRealUarts
                    THEN [thr EXCEPT ![t].pc = "scan_free", ![t].i = 1]
                  ELSE [thr EXCEPT ![t].i = i + 1]
    /\ UNCHANGED <<real_uart, dev_data, tx_ringbuf, rx_ringbuf, workq, stub, io, hist, ext>>

\* init_scan_free reporting a full pool as -ENOMEM
init_scan_free_enomem(t) ==
    /\ thr[t].pc = "scan_free"
    /\ LET i == thr[t].i
       IN  thr' = IF real_uart[i].uart = NULL
                    THEN [thr EXCEPT ![t].pc = "claim"]
                  ELSE IF i = NumRealUarts
                    THEN Return(t, 0 - ENOMEM)
                  ELSE [thr EXCEPT ![t].i = i + 1]
    /\ UNCHANGED <<real_uart, dev_data, tx_ringbuf, rx_ringbuf, workq, stub, io, hist, ext>>

\* init_real_uart(): second loop, looks for an unbound slot
init_scan_free(t) ==
    /\ thr[t].pc = "scan_free"
    /\ LET i == thr[t].i
       IN  thr' = IF real_uart[i].uart = NULL
                    THEN [thr EXCEPT ![t].pc = "claim"]
                  ELSE IF i = NumRealUarts
                    THEN Return(t, 0 - ENOENT)
                  ELSE [thr EXCEPT ![t].i = i + 1]
    /\ UNCHANGED <<real_uart, dev_data, tx_ringbuf, rx_ringbuf, workq, stub, io, hist, ext>>

\* init_real_uart(): real_uart->uart = uart
init_claim(t) ==
    /\ thr[t].pc = "claim"
    /\ real_uart' = [real_uart EXCEPT ![thr[t].i].uart = thr[t].uart]
    /\ thr' = [thr EXCEPT ![t].pc = "cas", ![t].slot = thr[t].i, ![t].i = 0]
    /\ UNCHANGED <<dev_data, tx_ringbuf, rx_ringbuf, workq, stub, io, hist, ext>>

\* init_real_uart(): atomic_cas(&real_uart->init_done, false, true)
init_cas(t) ==
    /\ thr[t].pc = "cas"
    /\ IF real_uart[thr[t].slot].init_done = FALSE
         THEN /\ real_uart' = [real_uart EXCEPT ![thr[t].slot].init_done = TRUE]
              /\ thr' = [thr EXCEPT ![t].pc = "create"]
         ELSE /\ thr' = [thr EXCEPT ![t].pc = "bind"]
              /\ UNCHANGED real_uart
    /\ UNCHANGED <<dev_data, tx_ringbuf, rx_ringbuf, workq, stub, io, hist, ext>>

\* init_real_uart(): real_uart->mux = gsm_mux_create(mux), which may fail
init_create(t, ok) ==
    /\ thr[t].pc = "create"
    /\ real_uart' = [real_uart EXCEPT
                       ![thr[t].slot].mux = IF ok THEN thr[t].slot ELSE NULL]
    /\ stub' = [stub EXCEPT !.create_calls[thr[t].uart] = @ + 1,
                            !.create_failed = @ \/ ~ok]
    /\ thr' = [thr EXCEPT ![t].pc = IF ok THEN "hw_init" ELSE "rollback_uart"]
    /\ UNCHANGED <<dev_data, tx_ringbuf, rx_ringbuf, workq, io, hist, ext>>

\* the roll back without the store that unbinds the slot
init_rollback_uart_keeps_uart(t) ==
    /\ thr[t].pc = "rollback_uart"
    /\ thr' = [thr EXCEPT ![t].pc = "rollback_flag"]
    /\ UNCHANGED <<real_uart, dev_data, tx_ringbuf, rx_ringbuf, workq, stub, io, hist, ext>>

\* init_real_uart(): real_uart->uart = NULL
init_rollback_uart(t) ==
    /\ thr[t].pc = "rollback_uart"
    /\ real_uart' = [real_uart EXCEPT ![thr[t].slot].uart = NULL]
    /\ thr' = [thr EXCEPT ![t].pc = "rollback_flag"]
    /\ UNCHANGED <<dev_data, tx_ringbuf, rx_ringbuf, workq, stub, io, hist, ext>>

\* init_real_uart(): atomic_clear(&real_uart->init_done); return -ENOMEM
init_rollback_flag(t) ==
    /\ thr[t].pc = "rollback_flag"
    /\ real_uart' = [real_uart EXCEPT ![thr[t].slot].init_done = FALSE]
    /\ thr' = Return(t, 0 - ENOMEM)
    /\ UNCHANGED <<dev_data, tx_ringbuf, rx_ringbuf, workq, stub, io, hist, ext>>

\* init_real_uart(): work and mutex init, then rx/tx irq disable, flush,
\* ISR registration, rx irq enable, all on real_uart->uart.  With
\* real_uart->uart NULL (a concurrent roll back) the calls dereference a
\* null device: the thread faults or runs on.
init_hw(t, survives) ==
    /\ thr[t].pc = "hw_init"
    /\ LET dev == real_uart[thr[t].slot].uart
       IN  IF dev # NULL
             THEN /\ survives
                  /\ stub' = [stub EXCEPT !.irq_seqs[dev] = @ + 1]
                  /\ thr' = [thr EXCEPT ![t].pc = "bind"]
             ELSE /\ stub' = [stub EXCEPT !.fault = TRUE]
                  /\ thr' = [thr EXCEPT ![t].pc = IF survives THEN "bind" ELSE "fault"]
    /\ UNCHANGED <<real_uart, dev_data, tx_ringbuf, rx_ringbuf, workq, io, hist, ext>>

\* attach(): the stores into dev_data after init_real_uart() returned 0
attach_bind(t) ==
    /\ thr[t].pc = "bind"
    /\ dev_data' = [dev_data EXCEPT ![thr[t].mux_uart] =
                      [@ EXCEPT !.real_uart = thr[t].slot,
                                !.tx_ready = TRUE,
                                !.tx_enabled = TRUE,
                                !.rx_enabled = TRUE,
                                !.status = UART_MUX_CONFIGURED]]
    /\ thr' = [thr EXCEPT ![t].pc = "dlci"]
    /\ UNCHANGED <<real_uart, tx_ringbuf, rx_ringbuf, workq, stub, io, hist, ext>>

\* attach(): gsm_dlci_create(real_uart->mux, ..., &dev_data->dlci), which
\* may fail; with real_uart->mux NULL the adapter is handed a null mux
attach_dlci(t, addr, ret) ==
    /\ thr[t].pc = "dlci"
    /\ stub' = [stub EXCEPT !.fault = @ \/ real_uart[thr[t].slot].mux = NULL]
    /\ thr' = Return(t, ret)
    /\ IF ret = 0
         THEN dev_data' = [dev_data EXCEPT ![thr[t].mux_uart].dlci = addr]
         ELSE UNCHANGED dev_data
    /\ UNCHANGED <<real_uart, tx_ringbuf, rx_ringbuf, workq, io, hist, ext>>

\* dlci_created_cb with a disconnect taking the status back to Unknown
dlci_created_cb_resets(c, connected) ==
    /\ dev_data[c].dlci # NULL
    /\ dev_data' = [dev_data EXCEPT ![c].status =
                      IF connected THEN UART_MUX_CONNECTED
                                   ELSE UART_MUX_UNKNOWN]
    /\ UNCHANGED <<real_uart, tx_ringbuf, rx_ringbuf, workq, thr, stub, io, hist, ext>>

\* the adapter reports the DLCI connected or disconnected
dlci_created_cb(c, connected) ==
    /\ dev_data[c].dlci # NULL
    /\ dev_data' = [dev_data EXCEPT ![c].status =
                      IF connected THEN UART_MUX_CONNECTED
                                   ELSE UART_MUX_DISCONNECTED]
    /\ UNCHANGED <<real_uart, tx_ringbuf, rx_ringbuf, workq, thr, stub, io, hist, ext>>

AttachStep(t) ==
    \/ \E m \in Chans \cup {UnknownDev, NULL}, u \in Handles \cup {NULL} :
          attach_enter(t, m, u)
    \/ init_scan_bound(t)
    \/ init_scan_free(t)
    \/ init_claim(t)
    \/ init_cas(t)
    \/ \E ok \in BOOLEAN : init_create(t, ok)
    \/ init_rollback_uart(t)
    \/ init_rollback_flag(t)
    \/ \E survives \in BOOLEAN : init_hw(t, survives)
    \/ attach_bind(t)
    \/ \E addr \in Addrs, ret \in {0} \cup {0 - e : e \in DlciErrors} :
          attach_dlci(t, addr, ret)

NextAttach ==
    \/ \E t \in Threads : AttachStep(t)
    \/ \E c \in Chans, connected \in BOOLEAN : dlci_created_cb(c, connected)

SpecAttach == Init /\ [][NextAttach]_vars

(***************************************************************************)
(* Claims about attach().                                                  *)
(***************************************************************************)
InInit(t) == thr[t].pc \in {"create", "hw_init", "rollback_uart", "rollback_flag"}

\* C1: while no gsm_mux_create() call has failed, concurrent attach() calls
\* that all name one real UART make at most one gsm_mux_create() call and run the
\* interrupt set-up sequence at most once for it, and exactly once each as
\* soon as a slot bound to that UART is initialised.
C1_InitExactlyOnce ==
    (~stub.create_failed /\ Cardinality(stub.named) <= 1) =>
        \A h \in Handles :
            /\ stub.create_calls[h] <= 1
            /\ stub.irq_seqs[h] <= 1
            /\ (\E s \in Slots : /\ real_uart[s].uart = h
                                 /\ real_uart[s].init_done
                                 /\ \A t \in Threads : ~InInit(t))
                  => stub.create_calls[h] = 1 /\ stub.irq_seqs[h] = 1

\* C2: attach() on a device that is not in uart_mux_data_devlist returns
\* -ENOENT and leaves every struct uart_mux slot as it was.
C2_UnknownChannelNotFound ==
    [][\A t \in Threads, u \in Handles :
          attach_enter(t, UnknownDev, u) =>
              /\ thr'[t].pc = "idle"
              /\ thr'[t].ret = 0 - ENOENT
              /\ real_uart' = real_uart]_vars

\* an attach() on an unknown device has returned -ENOENT while a slot is bound
C2_Witness ==
    \E t \in Threads :
        /\ thr[t].pc = "idle"
        /\ thr[t].mux_uart = UnknownDev
        /\ thr[t].ret = 0 - ENOENT
        /\ \E s \in Slots : real_uart[s].uart # NULL /\ real_uart[s].init_done

StatusEdge(c) == <<dev_data[c].status, dev_data'[c].status>>

\* C9 as claimed: the status moves only along Unknown -> Configured,
\* Configured -> Connected | Disconnected, Connected <-> Disconnected.
C9_StatusEdgesClaimed ==
    [][\A c \in Chans :
          \/ dev_data'[c].status = dev_data[c].status
          \/ StatusEdge(c) \in
               {<<UART_MUX_UNKNOWN, UART_MUX_CONFIGURED>>,
                <<UART_MUX_CONFIGURED, UART_MUX_CONNECTED>>,
                <<UART_MUX_CONFIGURED, UART_MUX_DISCONNECTED>>,
                <<UART_MUX_CONNECTED, UART_MUX_DISCONNECTED>>,
                <<UART_MUX_DISCONNECTED, UART_MUX_CONNECTED>>}]_vars

\* C9 amended: the status changes only to Configured, by attach() and from
\* any status, or to Connected or Disconnected, by a notification and never
\* from Unknown; it never changes to Unknown.
C9_StatusEdges ==
    [][\A c \in Chans :
          \/ dev_data'[c].status = dev_data[c].status
          \/ /\ dev_data'[c].status = UART_MUX_CONFIGURED
             /\ \E t \in Threads : thr[t].mux_uart = c /\ attach_bind(t)
          \/ /\ dev_data[c].status # UART_MUX_UNKNOWN
             /\ dev_data'[c].status \in {UART_MUX_CONNECTED, UART_MUX_DISCONNECTED}
             /\ \E connected \in BOOLEAN : dlci_created_cb(c, connected)]_vars

\* a second attach() has taken a channel with a DLCI back to Configured
C9_Witness ==
    \E t \in Threads :
        /\ thr[t].pc = "dlci"
        /\ thr[t].mux_uart \in Chans
        /\ dev_data[thr[t].mux_uart].dlci # NULL
        /\ dev_data[thr[t].mux_uart].status = UART_MUX_CONFIGURED

\* C10: a channel on which no gsm_dlci_create() has succeeded, and on which
\* no attach() is running, has the binding, status and flags it started with.
C10_FailedAttachLeavesChannel ==
    \A c \in Chans :
        (/\ dev_data[c].dlci = NULL
         /\ \A t \in Threads : ~(thr[t].pc # "idle" /\ thr[t].mux_uart = c))
            => dev_data[c] = InitDevData

(***************************************************************************)
(* Channel I/O.  The operations below run to completion one at a time:     *)
(* application calls, adapter calls and the handlers of the one work       *)
(* queue thread.  dev_data->dev is set by uart_mux_init() for every        *)
(* device, so the -ENOENT returns on dev_data->dev == NULL do not occur.   *)
(***************************************************************************)
tx_work(c) == Work("tx_work", c)
cb_work(c) == Work("cb_work", c)

\* the state attach(mux 1, uart 1, address 1) leaves when all succeeds
AttachedRealUart == [uart |-> 1, mux |-> 1, init_done |-> TRUE]

AttachedDevData ==
    [InitDevData EXCEPT !.real_uart = 1, !.tx_ready = TRUE, !.tx_enabled = TRUE,
                        !.rx_enabled = TRUE, !.status = UART_MUX_CONFIGURED,
                        !.dlci = 1]

InitAttached ==
    /\ real_uart = [s \in Slots |-> IF s = 1 THEN AttachedRealUart ELSE InitRealUart]
    /\ dev_data = [c \in Chans |-> IF c = 1 THEN AttachedDevData ELSE InitDevData]
    /\ tx_ringbuf = [c \in Chans |-> EmptyRing]
    /\ rx_ringbuf = [c \in Chans |-> EmptyRing]
    /\ workq = << >>
    /\ thr = [t \in Threads |-> InitThread]
    /\ stub = InitStub
    /\ io = InitIo
    /\ hist = [c \in Chans |-> InitHist]
    /\ InitExt

\* uart_mux_fifo_fill with tx_ready cleared before the status is looked at
uart_mux_fifo_fill_clears_first(c, tx_data) ==
    LET wrote == ring_buf_put_count(tx_ringbuf[c], tx_data)
    IN  /\ dev_data' = [dev_data EXCEPT ![c].tx_ready = FALSE]
        /\ IF dev_data[c].status # UART_MUX_CONNECTED
             THEN /\ io' = Io("fill", c, 0, << >>, FALSE)
                  /\ UNCHANGED <<tx_ringbuf, workq>>
             ELSE /\ tx_ringbuf' = [tx_ringbuf EXCEPT ![c] = ring_buf_put(@, tx_data)]
                  /\ workq' = k_work_submit_to_queue(workq, tx_work(c))
                  /\ io' = Io("fill", c, wrote, SubSeq(tx_data, 1, wrote),
                              ring_buf_is_empty(tx_ringbuf[c]))
        /\ UNCHANGED <<real_uart, rx_ringbuf, thr, stub, hist, ext>>

\* uart_mux_fifo_fill(dev, tx_data, len).  io.bytes are the bytes accepted,
\* io.flag tells whether the TX ring was empty when they were put.
uart_mux_fifo_fill(c, tx_data) ==
    LET wrote == ring_buf_put_count(tx_ringbuf[c], tx_data)
    IN  /\ IF dev_data[c].status # UART_MUX_CONNECTED
             THEN /\ io' = Io("fill", c, 0, << >>, FALSE)
                  /\ UNCHANGED <<dev_data, tx_ringbuf, workq>>
             ELSE /\ dev_data' = [dev_data EXCEPT ![c].tx_ready = FALSE]
                  /\ tx_ringbuf' = [tx_ringbuf EXCEPT ![c] = ring_buf_put(@, tx_data)]
                  /\ workq' = k_work_submit_to_queue(workq, tx_work(c))
                  /\ io' = Io("fill", c, wrote, SubSeq(tx_data, 1, wrote),
                              ring_buf_is_empty(tx_ringbuf[c]))
        /\ UNCHANGED <<real_uart, rx_ringbuf, thr, stub, hist, ext>>

\* uart_mux_tx_work that marks the channel ready to send again once it has
\* handed the bytes on
uart_mux_tx_work_sets_ready(c) ==
    /\ workq # << >>
    /\ Head(workq) = tx_work(c)
    /\ workq' = Tail(workq)
    /\ LET span == ring_buf_get_claim(tx_ringbuf[c], RingSize)
       IN  IF Len(span) = 0
             THEN /\ io' = Io("tx_work", c, 0, << >>, FALSE)
                  /\ UNCHANGED <<tx_ringbuf, dev_data>>
             ELSE /\ io' = Io("tx_work", c, Len(span), span, TRUE)
                  /\ tx_ringbuf' = [tx_ringbuf EXCEPT
                                      ![c] = ring_buf_get_finish(@, Len(span))]
                  /\ dev_data' = [dev_data EXCEPT ![c].tx_ready = TRUE]
    /\ UNCHANGED <<real_uart, rx_ringbuf, thr, stub, hist, ext>>

\* uart_mux_tx_work(): the handler of dev_data->tx_work, run by the work
\* queue thread.  io.flag tells whether gsm_dlci_send() was called, io.bytes
\* are the bytes it was handed.
uart_mux_tx_work(c) ==
    /\ workq # << >>
    /\ Head(workq) = tx_work(c)
    /\ workq' = Tail(workq)
    /\ LET span == ring_buf_get_claim(tx_ringbuf[c], RingSize)
       IN  IF Len(span) = 0
             THEN /\ io' = Io("tx_work", c, 0, << >>, FALSE)
                  /\ UNCHANGED tx_ringbuf
             ELSE /\ io' = Io("tx_work", c, Len(span), span, TRUE)
                  /\ tx_ringbuf' = [tx_ringbuf EXCEPT
                                      ![c] = ring_buf_get_finish(@, Len(span))]
    /\ UNCHANGED <<real_uart, dev_data, rx_ringbuf, thr, stub, hist, ext>>

NextTx ==
    \/ \E c \in Chans, tx_data \in Buffers : uart_mux_fifo_fill(c, tx_data)
    \/ \E c \in Chans : uart_mux_tx_work(c)
    \/ \E c \in Chans, connected \in BOOLEAN : dlci_created_cb(c, connected)

SpecTx == InitAttached /\ [][NextTx]_vars

\* C3: uart_mux_fifo_fill() on a channel that is not Connected returns 0,
\* submits no work and leaves the TX ring and every flag as they were.
C3_FillNotConnected ==
    [][\A c \in Chans, tx_data \in Buffers :
          (uart_mux_fifo_fill(c, tx_data) /\ dev_data[c].status # UART_MUX_CONNECTED)
              => /\ io'.ret = 0
                 /\ workq' = workq
                 /\ tx_ringbuf' = tx_ringbuf
                 /\ dev_data' = dev_data]_vars

\* a fill has returned 0 on a channel that is not Connected and has tx_ready set
C3_Witness ==
    /\ io.op = "fill"
    /\ io.ret = 0
    /\ dev_data[io.chan].status = UART_MUX_DISCONNECTED
    /\ dev_data[io.chan].tx_ready
    /\ workq = << >>

\* C4: when the work queue thread runs the TX work of a channel right after
\* a fill put bytes into its empty TX ring, gsm_dlci_send() is called with
\* exactly the bytes the fill accepted, and the work is no longer pending.
C4_FillThenDrainSendsAll ==
    [][\A c \in Chans :
          (/\ uart_mux_tx_work(c)
           /\ io.op = "fill" /\ io.chan = c /\ io.flag /\ io.ret > 0)
              => /\ io'.flag
                 /\ io'.bytes = io.bytes
                 /\ ~IsPending(workq', tx_work(c))]_vars

(***************************************************************************)
(* Receive side and the interrupt emulation.                               *)
(***************************************************************************)
\* uart_mux_recv with the callback work submitted whether or not rx is enabled
uart_mux_recv_ignores_rx_enabled(c, data) ==
    LET wrote == ring_buf_put_count(rx_ringbuf[c], data)
    IN  /\ dev_data[c].dlci # NULL
        /\ Len(hist[c].accepted) + Len(data) <= MaxDelivered
        /\ rx_ringbuf' = [rx_ringbuf EXCEPT ![c] = ring_buf_put(@, data)]
        /\ dev_data' = [dev_data EXCEPT ![c].rx_ready = TRUE]
        /\ workq' = IF dev_data[c].cb # NULL
                      THEN k_work_submit_to_queue(workq, cb_work(c))
                      ELSE workq
        /\ io' = Io("recv", c, wrote, SubSeq(data, 1, wrote),
                    IsPending(workq, cb_work(c)))
        /\ hist' = [hist EXCEPT ![c].accepted = @ \o SubSeq(data, 1, wrote)]
        /\ UNCHANGED <<real_uart, tx_ringbuf, thr, stub, ext>>

\* uart_mux_recv with the length handed in returned instead of the length put
uart_mux_recv_returns_len(c, data) ==
    LET wrote == ring_buf_put_count(rx_ringbuf[c], data)
    IN  /\ dev_data[c].dlci # NULL
        /\ Len(hist[c].accepted) + Len(data) <= MaxDelivered
        /\ rx_ringbuf' = [rx_ringbuf EXCEPT ![c] = ring_buf_put(@, data)]
        /\ dev_data' = [dev_data EXCEPT ![c].rx_ready = TRUE]
        /\ workq' = IF dev_data[c].cb # NULL /\ dev_data[c].rx_enabled
                      THEN k_work_submit_to_queue(workq, cb_work(c))
                      ELSE workq
        /\ io' = Io("recv", c, Len(data), SubSeq(data, 1, wrote),
                    IsPending(workq, cb_work(c)))
        /\ hist' = [hist EXCEPT ![c].accepted = @ \o SubSeq(data, 1, wrote)]
        /\ UNCHANGED <<real_uart, tx_ringbuf, thr, stub, ext>>

\* uart_mux_recv(mux, dlci, data, len): the adapter delivers the payload of
\* a frame of this channel's DLCI.  io.flag tells whether the callback work
\* was pending already.
uart_mux_recv(c, data) ==
    LET wrote == ring_buf_put_count(rx_ringbuf[c], data)
    IN  /\ dev_data[c].dlci # NULL
        /\ Len(hist[c].accepted) + Len(data) <= MaxDelivered
        /\ rx_ringbuf' = [rx_ringbuf EXCEPT ![c] = ring_buf_put(@, data)]
        /\ dev_data' = [dev_data EXCEPT ![c].rx_ready = TRUE]
        /\ workq' = IF dev_data[c].cb # NULL /\ dev_data[c].rx_enabled
                      THEN k_work_submit_to_queue(workq, cb_work(c))
                      ELSE workq
        /\ io' = Io("recv", c, wrote, SubSeq(data, 1, wrote),
                    IsPending(workq, cb_work(c)))
        /\ hist' = [hist EXCEPT ![c].accepted = @ \o SubSeq(data, 1, wrote)]
        /\ UNCHANGED <<real_uart, tx_ringbuf, thr, stub, ext>>

\* uart_mux_fifo_read with one contiguous claim in place of ring_buf_get()
uart_mux_fifo_read_one_span(c, size) ==
    LET bytes == ring_buf_get_claim(rx_ringbuf[c], size)
        after == ring_buf_get_finish(rx_ringbuf[c], Len(bytes))
    IN  /\ rx_ringbuf' = [rx_ringbuf EXCEPT ![c] = after]
        /\ dev_data' = [dev_data EXCEPT ![c].rx_ready =
                          IF ring_buf_is_empty(after) THEN FALSE ELSE @]
        /\ io' = Io("read", c, Len(bytes), bytes, FALSE)
        /\ hist' = [hist EXCEPT ![c].read = @ \o bytes]
        /\ UNCHANGED <<real_uart, tx_ringbuf, workq, thr, stub, ext>>

\* uart_mux_fifo_read(dev, rx_data, size).  io.bytes are the bytes copied out.
uart_mux_fifo_read(c, size) ==
    LET bytes == ring_buf_get_bytes(rx_ringbuf[c], size)
        after == ring_buf_get(rx_ringbuf[c], size)
    IN  /\ rx_ringbuf' = [rx_ringbuf EXCEPT ![c] = after]
        /\ dev_data' = [dev_data EXCEPT ![c].rx_ready =
                          IF ring_buf_is_empty(after) THEN FALSE ELSE @]
        /\ io' = Io("read", c, Len(bytes), bytes, FALSE)
        /\ hist' = [hist EXCEPT ![c].read = @ \o bytes]
        /\ UNCHANGED <<real_uart, tx_ringbuf, workq, thr, stub, ext>>

\* uart_mux_irq_tx_enable without the submit
uart_mux_irq_tx_enable_only_flag(c) ==
    /\ dev_data' = [dev_data EXCEPT ![c].tx_enabled = TRUE]
    /\ io' = Io("tx_enable", c, 0, << >>, FALSE)
    /\ UNCHANGED <<real_uart, tx_ringbuf, rx_ringbuf, workq, thr, stub, hist, ext>>

uart_mux_irq_tx_enable(c) ==
    /\ dev_data' = [dev_data EXCEPT ![c].tx_enabled = TRUE]
    /\ workq' = IF dev_data[c].cb # NULL /\ dev_data[c].tx_ready
                  THEN k_work_submit_to_queue(workq, cb_work(c))
                  ELSE workq
    /\ io' = Io("tx_enable", c, 0, << >>, FALSE)
    /\ UNCHANGED <<real_uart, tx_ringbuf, rx_ringbuf, thr, stub, hist, ext>>

uart_mux_irq_tx_disable(c) ==
    /\ dev_data' = [dev_data EXCEPT ![c].tx_enabled = FALSE]
    /\ io' = Io("tx_disable", c, 0, << >>, FALSE)
    /\ UNCHANGED <<real_uart, tx_ringbuf, rx_ringbuf, workq, thr, stub, hist, ext>>

uart_mux_irq_rx_enable(c) ==
    /\ dev_data' = [dev_data EXCEPT ![c].rx_enabled = TRUE]
    /\ workq' = IF dev_data[c].cb # NULL /\ dev_data[c].rx_ready
                  THEN k_work_submit_to_queue(workq, cb_work(c))
                  ELSE workq
    /\ io' = Io("rx_enable", c, 0, << >>, FALSE)
    /\ UNCHANGED <<real_uart, tx_ringbuf, rx_ringbuf, thr, stub, hist, ext>>

uart_mux_irq_rx_disable(c) ==
    /\ dev_data' = [dev_data EXCEPT ![c].rx_enabled = FALSE]
    /\ io' = Io("rx_disable", c, 0, << >>, FALSE)
    /\ UNCHANGED <<real_uart, tx_ringbuf, rx_ringbuf, workq, thr, stub, hist, ext>>

\* uart_mux_irq_callback_set(dev, cb, user_data); cb is NULL or a function
uart_mux_irq_callback_set(c, cb) ==
    /\ dev_data' = [dev_data EXCEPT ![c].cb = cb]
    /\ io' = Io("callback_set", c, 0, << >>, FALSE)
    /\ UNCHANGED <<real_uart, tx_ringbuf, rx_ringbuf, workq, thr, stub, hist, ext>>

\* uart_mux_cb_work(): the handler of dev_data->cb_work calls dev_data->cb.
\* io.flag tells whether a function was there to call; a call through a
\* null dev_data->cb is a fault.
uart_mux_cb_work(c) ==
    /\ workq # << >>
    /\ Head(workq) = cb_work(c)
    /\ workq' = Tail(workq)
    /\ io' = Io("cb_work", c, 0, << >>, dev_data[c].cb # NULL)
    /\ stub' = [stub EXCEPT !.fault = @ \/ dev_data[c].cb = NULL]
    /\ UNCHANGED <<real_uart, dev_data, tx_ringbuf, rx_ringbuf, thr, hist, ext>>

Callbacks == {NULL, 1}

\* the application drives the channels it has attached
UsedChans == {c \in Chans : dev_data[c].dlci # NULL}

NextRx ==
    \/ \E c \in UsedChans, data \in Buffers : uart_mux_recv(c, data)
    \/ \E c \in UsedChans, size \in 0..MaxLen : uart_mux_fifo_read(c, size)
    \/ \E c \in UsedChans : uart_mux_irq_tx_enable(c)
    \/ \E c \in UsedChans : uart_mux_irq_tx_disable(c)
    \/ \E c \in UsedChans : uart_mux_irq_rx_enable(c)
    \/ \E c \in UsedChans : uart_mux_irq_rx_disable(c)
    \/ \E c \in UsedChans, cb \in Callbacks : uart_mux_irq_callback_set(c, cb)
    \/ \E c \in UsedChans : uart_mux_cb_work(c)

SpecRx == InitAttached /\ [][NextRx]_vars

IsPrefix(a, b) == Len(a) <= Len(b) /\ SubSeq(b, 1, Len(a)) = a

Occurrences(q, w) == Cardinality({k \in 1..Len(q) : q[k] = w})

\* C5: the bytes read out of a channel are a prefix of the bytes
\* uart_mux_recv() accepted, and together with the bytes still in the RX
\* ring they are all of them, in order; a uart_mux_recv() of N bytes that
\* meets F free bytes keeps the first min(N, F) bytes and returns that count.
C5_DeliverReadRoundTrip ==
    [][/\ \A c \in Chans :
             /\ IsPrefix(hist'[c].read, hist'[c].accepted)
             /\ hist'[c].read \o rx_ringbuf'[c].data = hist'[c].accepted
       /\ \A c \in Chans, data \in Buffers :
             uart_mux_recv(c, data) =>
                 LET kept == Min(Len(data), RingSize - Len(rx_ringbuf[c].data))
                 IN  /\ io'.ret = kept
                     /\ rx_ringbuf'[c].data =
                            rx_ringbuf[c].data \o SubSeq(data, 1, kept)
                     /\ hist'[c].accepted =
                            hist[c].accepted \o SubSeq(data, 1, kept)]_vars

\* more bytes than the ring holds were delivered and all were read back in
\* order, the last ones from across the end of the backing array
C5_Witness ==
    /\ io.op = "read"
    /\ hist[1].accepted = <<1, 2, 2, 1>>
    /\ hist[1].read = <<1, 2, 2, 1>>
    /\ rx_ringbuf[1].head = 1

\* C6: uart_mux_fifo_read(size) copies out the first min(size, stored)
\* bytes of the RX ring; after it rx_ready is false when the ring is empty
\* and is what it was when bytes remain.
C6_ReadCountAndReady ==
    [][\A c \in Chans, size \in 0..MaxLen :
          uart_mux_fifo_read(c, size) =>
              LET stored == rx_ringbuf[c].data
                  n == Min(size, Len(stored))
              IN  /\ io'.ret = n
                  /\ io'.bytes = SubSeq(stored, 1, n)
                  /\ rx_ringbuf'[c].data = SubSeq(stored, n + 1, Len(stored))
                  /\ dev_data'[c].rx_ready =
                        IF n = Len(stored) THEN FALSE ELSE dev_data[c].rx_ready]_vars

\* a read has copied out bytes stored across the end of the backing array
\* and has left bytes, and rx_ready, behind
C6_Witness ==
    /\ io.op = "read"
    /\ io.ret >= 2
    /\ rx_ringbuf[io.chan].head > 0
    /\ rx_ringbuf[io.chan].head < io.ret
    /\ ~ring_buf_is_empty(rx_ringbuf[io.chan])
    /\ dev_data[io.chan].rx_ready

\* C7: the work queue never holds more than one callback work of a channel,
\* and a uart_mux_recv() while rx is disabled submits nothing.
C7_OneCallbackWork ==
    [][/\ \A c \in Chans : Occurrences(workq', cb_work(c)) <= 1
       /\ \A c \in Chans, data \in Buffers :
             (uart_mux_recv(c, data) /\ ~dev_data[c].rx_enabled)
                 => workq' = workq]_vars

\* a second uart_mux_recv() came before the work queue thread ran the
\* callback work the first one submitted
C7_Witness ==
    /\ io.op = "recv"
    /\ io.flag
    /\ workq = <<cb_work(io.chan)>>
    /\ Len(rx_ringbuf[io.chan].data) > Len(io.bytes)

\* C8 as claimed: enabling tx while tx_ready is set, or rx while rx_ready is
\* set, leaves the callback work of the channel pending.
C8_EnableSubmitsClaimed ==
    [][\A c \in Chans :
          /\ (uart_mux_irq_tx_enable(c) /\ dev_data[c].tx_ready)
                => IsPending(workq', cb_work(c))
          /\ (uart_mux_irq_rx_enable(c) /\ dev_data[c].rx_ready)
                => IsPending(workq', cb_work(c))]_vars

\* C8 amended: with a callback registered, enabling tx while tx_ready is
\* set, or rx while rx_ready is set, leaves the callback work of the channel
\* pending; with no callback registered the enable submits nothing.
C8_EnableSubmits ==
    [][\A c \in Chans :
          /\ (uart_mux_irq_tx_enable(c) /\ dev_data[c].tx_ready /\ dev_data[c].cb # NULL)
                => IsPending(workq', cb_work(c))
          /\ (uart_mux_irq_rx_enable(c) /\ dev_data[c].rx_ready /\ dev_data[c].cb # NULL)
                => IsPending(workq', cb_work(c))
          /\ ((uart_mux_irq_tx_enable(c) \/ uart_mux_irq_rx_enable(c))
                 /\ dev_data[c].cb = NULL)
                => workq' = workq]_vars

\* tx was enabled, with a callback registered, while tx_ready was set and
\* no callback work was pending: one is pending now
C8_Witness ==
    /\ io.op = "tx_enable"
    /\ dev_data[io.chan].cb # NULL
    /\ dev_data[io.chan].tx_ready
    /\ workq = <<cb_work(io.chan)>>
    /\ ring_buf_is_empty(rx_ringbuf[io.chan])
    /\ ~dev_data[io.chan].rx_ready

(***************************************************************************)
(* The device registry: uart_mux_alloc() and uart_mux_find().              *)
(* uart_mux_init() prepends each device to uart_mux_data_devlist, so the   *)
(* list holds the devices in the reverse of their initialisation order.    *)
(* uart_mux_alloc() takes no lock: the test of in_use and the store to it  *)
(* are separate steps of the calling thread.                               *)
(***************************************************************************)
DevList == [k \in 1..NumChans |-> NumChans + 1 - k]

alloc_enter(t) ==
    /\ alloc.frame[t].pc = "idle"
    /\ alloc.calls < MaxAllocCalls
    /\ alloc' = [alloc EXCEPT !.calls = @ + 1,
                              !.frame[t] = [pc |-> "check", i |-> 1, ret |-> NULL]]
    /\ UNCHANGED <<real_uart, dev_data, tx_ringbuf, rx_ringbuf, workq, thr, stub,
                   io, hist, lock, send, wire, rd, uart_rx, rxlog>>

\* if (dev_data->in_use) continue;   and the return NULL after the loop
alloc_check(t) ==
    LET f == alloc.frame[t] IN
    /\ f.pc = "check"
    /\ alloc' = [alloc EXCEPT !.frame[t] =
                    IF ~dev_data[DevList[f.i]].in_use
                    THEN [f EXCEPT !.pc = "mark"]
                    ELSE IF f.i < NumChans
                         THEN [f EXCEPT !.i = @ + 1]
                         ELSE [pc |-> "idle", i |-> 0, ret |-> NULL]]
    /\ UNCHANGED <<real_uart, dev_data, tx_ringbuf, rx_ringbuf, workq, thr, stub,
                   io, hist, lock, send, wire, rd, uart_rx, rxlog>>

\* dev_data->in_use = true; return dev_data->dev;
alloc_mark(t) ==
    LET f == alloc.frame[t]
        d == DevList[f.i]
    IN  /\ f.pc = "mark"
        /\ dev_data' = [dev_data EXCEPT ![d].in_use = TRUE]
        /\ alloc' = [alloc EXCEPT !.returned[d] = @ + 1,
                                  !.frame[t] = [pc |-> "idle", i |-> f.i, ret |-> d]]
        /\ UNCHANGED <<real_uart, tx_ringbuf, rx_ringbuf, workq, thr, stub,
                       io, hist, lock, send, wire, rd, uart_rx, rxlog>>

\* gsm_dlci_id(): a DLCI handle is represented by the address it was created
\* with (attach stores the address in dev_data.dlci)
gsm_dlci_id(dlci) == dlci

\* positions of uart_mux_data_devlist at which the scan of uart_mux_find stops
FindMatches(dlci_address) ==
    {k \in 1..NumChans :
        /\ dev_data[DevList[k]].in_use
        /\ dev_data[DevList[k]].dlci # NULL
        /\ gsm_dlci_id(dev_data[DevList[k]].dlci) = dlci_address}

\* the same scan without the in_use test
FindMatchesAnyUse(dlci_address) ==
    {k \in 1..NumChans :
        /\ dev_data[DevList[k]].dlci # NULL
        /\ gsm_dlci_id(dev_data[DevList[k]].dlci) = dlci_address}

FirstOf(S) == CHOOSE k \in S : \A j \in S : k <= j

\* z_impl_uart_mux_find() with the in_use test left out
uart_mux_find_any_use(dlci_address) ==
    /\ io' = Io("find", NULL,
                IF FindMatchesAnyUse(dlci_address) = {} THEN NULL
                ELSE DevList[FirstOf(FindMatchesAnyUse(dlci_address))],
                <<dlci_address>>, FALSE)
    /\ UNCHANGED <<real_uart, dev_data, tx_ringbuf, rx_ringbuf, workq, thr, stub,
                   hist, ext>>

\* z_impl_uart_mux_find(): io.ret is the device returned, io.bytes the address
\* asked for
uart_mux_find(dlci_address) ==
    /\ io' = Io("find", NULL,
                IF FindMatches(dlci_address) = {} THEN NULL
                ELSE DevList[FirstOf(FindMatches(dlci_address))],
                <<dlci_address>>, FALSE)
    /\ UNCHANGED <<real_uart, dev_data, tx_ringbuf, rx_ringbuf, workq, thr, stub,
                   hist, ext>>

\* the addresses looked up: those attach() uses and one no channel has
FindAddrs == Addrs \cup {99}

\* which channels attach() has given a DLCI, and its address: no two channels
\* of one mux share an address
AttachedAddrs ==
    {f \in [Chans -> {NULL} \cup Addrs] :
        \A c, d \in Chans : (c # d /\ f[c] # NULL) => f[c] # f[d]}

\* the registry after some attach() calls succeeded and before any
\* uart_mux_alloc(): attach() does not look at in_use
InitRegistry ==
    /\ \E f \in AttachedAddrs :
          /\ dev_data = [c \in Chans |->
                            IF f[c] = NULL THEN InitDevData
                            ELSE [AttachedDevData EXCEPT !.dlci = f[c]]]
          /\ real_uart = [s \in Slots |->
                            IF s = 1 /\ (\E c \in Chans : f[c] # NULL)
                            THEN AttachedRealUart ELSE InitRealUart]
    /\ tx_ringbuf = [c \in Chans |-> EmptyRing]
    /\ rx_ringbuf = [c \in Chans |-> EmptyRing]
    /\ workq = << >>
    /\ thr = [t \in Threads |-> InitThread]
    /\ stub = InitStub
    /\ io = InitIo
    /\ hist = [c \in Chans |-> InitHist]
    /\ InitExt

NextRegistry ==
    \/ \E t \in Threads : alloc_enter(t) \/ alloc_check(t) \/ alloc_mark(t)
    \/ \E a \in FindAddrs : uart_mux_find(a)

SpecRegistry == InitRegistry /\ [][NextRegistry]_vars

\* a call of thread t returns in this step
AllocReturns(t) == alloc.frame[t].pc # "idle" /\ alloc'.frame[t].pc = "idle"

\* C11: over every interleaving of uart_mux_alloc() calls, in_use never goes
\* from true to false, no device is handed out by two calls, a call that
\* returns a device returns one it marked in_use with every device before it
\* in the list in use, and a call returns NULL only when all are in use.
C11_AllocHandsOutOnce ==
    [][/\ \A c \in Chans : dev_data[c].in_use => dev_data'[c].in_use
       /\ \A c \in Chans : alloc'.returned[c] <= 1
       /\ \A t \in Threads : AllocReturns(t) =>
             LET r == alloc'.frame[t].ret IN
             IF r = NULL
             THEN \A c \in Chans : dev_data'[c].in_use
             ELSE /\ dev_data'[r].in_use
                  /\ \A k \in 1..NumChans :
                        k < alloc'.frame[t].i => dev_data'[DevList[k]].in_use]_vars

\* a channel uart_mux_find(a) may return
FindCandidate(c, a) ==
    /\ dev_data[c].in_use
    /\ dev_data[c].dlci # NULL
    /\ gsm_dlci_id(dev_data[c].dlci) = a

\* C12: uart_mux_find(a) returns a device only if that device is in use, has
\* a DLCI and the DLCI's address is a; it returns NULL only if no device is
\* so (an attached device that was never allocated, or an allocated one that
\* was never attached, is not returned).
C12_FindByAddress ==
    [][\A a \in FindAddrs : uart_mux_find(a) =>
          /\ io'.ret # NULL => FindCandidate(io'.ret, a)
          /\ io'.ret = NULL => \A c \in Chans : ~FindCandidate(c, a)]_vars

\* a lookup found a device while another device, attached but not allocated,
\* was passed over
C12_Witness ==
    /\ io.op = "find"
    /\ io.ret # NULL
    /\ \E c \in Chans : dev_data[c].dlci # NULL /\ ~dev_data[c].in_use
    /\ \A t \in Threads : alloc.frame[t].pc = "idle"

(***************************************************************************)
(* attach() when every struct uart_mux slot is taken by another real UART. *)
(***************************************************************************)
\* real UARTs other than those the threads name, one per slot
OtherUart(s) == Cardinality(Handles) + s

\* every slot was bound and initialised by earlier attach() calls that named
\* other real UARTs; the channels those calls attached now hang on slot 1
InitPoolFull ==
    /\ real_uart = [s \in Slots |->
                       [uart |-> OtherUart(s), mux |-> s, init_done |-> TRUE]]
    /\ \E f \in AttachedAddrs :
          /\ \E c \in Chans : f[c] # NULL
          /\ dev_data = [c \in Chans |->
                            IF f[c] = NULL THEN InitDevData
                            ELSE [AttachedDevData EXCEPT !.dlci = f[c]]]
    /\ tx_ringbuf = [c \in Chans |-> EmptyRing]
    /\ rx_ringbuf = [c \in Chans |-> EmptyRing]
    /\ workq = << >>
    /\ thr = [t \in Threads |-> InitThread]
    /\ stub = InitStub
    /\ io = InitIo
    /\ hist = [c \in Chans |-> InitHist]
    /\ InitExt

\* with no unbound slot the calls never get past the two loops
NextPoolFull ==
    \E t \in Threads :
        \/ \E m \in Chans \cup {UnknownDev, NULL}, u \in Handles \cup {NULL} :
              attach_enter(t, m, u)
        \/ init_scan_bound(t)
        \/ init_scan_free(t)

SpecPoolFull == InitPoolFull /\ [][NextPoolFull]_vars

\* what attach() returns for a device that is not in uart_mux_data_devlist
NotFound == 0 - ENOENT

\* no slot is unbound and none is bound to uart u
PoolFullFor(u) == \A s \in Slots : real_uart[s].uart \notin {NULL, u}

\* thread t is in one of the two loops of init_real_uart() and takes a step
ScanStep(t) ==
    /\ thr[t].pc \in {"scan_bound", "scan_free"}
    /\ thr'[t] # thr[t]

InRollback(t) == thr[t].pc \in {"rollback_uart", "rollback_flag"}

\* thread t takes a step of its attach() call
StepOf(t) == thr'[t] # thr[t]

\* C14: when gsm_mux_create() fails, the call stores no mux, then clears the
\* slot's uart, then clears init_done and returns -ENOMEM; none of these steps
\* runs the irq/ISR set-up or touches a channel; and an attach() that comes
\* later, with no other call under way, to the CAS of a slot with no mux wins
\* it and calls gsm_mux_create() again.
C14_CreateFailureRollsBack ==
    [][\A t \in Threads :
          /\ (thr[t].pc = "create" /\ StepOf(t) /\ thr'[t].pc # "hw_init") =>
                /\ thr'[t].pc = "rollback_uart"
                /\ real_uart'[thr[t].slot].mux = NULL
                /\ dev_data' = dev_data
                /\ stub'.irq_seqs = stub.irq_seqs
          /\ (thr[t].pc = "rollback_uart" /\ StepOf(t)) =>
                /\ thr'[t].pc = "rollback_flag"
                /\ real_uart'[thr[t].slot].uart = NULL
                /\ dev_data' = dev_data
                /\ stub'.irq_seqs = stub.irq_seqs
          /\ (thr[t].pc = "rollback_flag" /\ StepOf(t)) =>
                /\ thr'[t].pc = "idle"
                /\ thr'[t].ret = 0 - ENOMEM
                /\ real_uart'[thr[t].slot].init_done = FALSE
                /\ real_uart'[thr[t].slot].mux = NULL
                /\ dev_data' = dev_data
                /\ stub'.irq_seqs = stub.irq_seqs
          /\ (/\ thr[t].pc = "cas" /\ StepOf(t)
              /\ real_uart[thr[t].slot].mux = NULL
              /\ \A o \in Threads \ {t} : thr[o].pc = "idle") =>
                thr'[t].pc = "create"]_vars

\* after a gsm_mux_create() that failed and was rolled back, a later attach()
\* of the same UART called gsm_mux_create() again and got a mux
C14_Witness ==
    /\ stub.create_failed
    /\ \A t \in Threads : thr[t].pc = "idle"
    /\ \E t \in Threads : thr[t].ret = 0 - ENOMEM
    /\ \E h \in Handles :
          /\ stub.named = {h}
          /\ stub.create_calls[h] = 2
          /\ \E s \in Slots : real_uart[s].uart = h /\ real_uart[s].mux # NULL

(***************************************************************************)
(* uart_mux_send(): the GSM mux writes a frame to the real UART.  It is    *)
(* reached from an application thread (uart_mux_poll_out -> gsm_dlci_send) *)
(* and from the work queue thread (uart_mux_tx_work -> gsm_dlci_send).     *)
(* One step per kernel call: the thread can be preempted between them.     *)
(* wire[s] logs each byte with the context that wrote it, the number of    *)
(* that context's writing call and the byte's position in the buffer.      *)
(***************************************************************************)
\* k_mutex: free, or held by the context that locked it
k_mutex_free(s, x) == lock[s] \in {NoOwner, x}
k_mutex_lock(s, x) == [lock EXCEPT ![s] = x]
k_mutex_unlock(s) == [lock EXCEPT ![s] = NoOwner]

\* bytes still to be written by the calls under way on slot s
SendPending(s) ==
    LET n(x) == IF send[x].pc # "idle" /\ send[x].slot = s
                THEN Len(send[x].buf) ELSE 0
    IN  n("app") + n("worker")

\* the size and init_done checks
send_enter(x, c, buf) ==
    LET s == dev_data[c].real_uart IN
    /\ send[x].pc = "idle"
    /\ s # NULL
    /\ Len(wire[s]) + SendPending(s) + Len(buf) <= MaxSent
    /\ send' = [send EXCEPT ![x] =
                  IF Len(buf) = 0
                    THEN [@ EXCEPT !.ret = 0]
                  ELSE IF real_uart[s].init_done = FALSE
                    THEN [@ EXCEPT !.ret = 0 - ENODEV]
                  ELSE [pc |-> "lock", slot |-> s, buf |-> buf, k |-> 0,
                        calls |-> @.calls + 1, ret |-> @.ret]]
    /\ UNCHANGED <<real_uart, dev_data, tx_ringbuf, rx_ringbuf, workq, thr, stub,
                   io, hist, alloc, lock, wire, rd, uart_rx, rxlog>>

\* uart_mux_send() going on without waiting for the mutex
send_lock_no_wait(x) ==
    /\ send[x].pc = "lock"
    /\ lock' = k_mutex_lock(send[x].slot, x)
    /\ send' = [send EXCEPT ![x].pc = "out"]
    /\ UNCHANGED <<real_uart, dev_data, tx_ringbuf, rx_ringbuf, workq, thr, stub,
                   io, hist, alloc, wire, rd, uart_rx, rxlog>>

\* k_mutex_lock(&real_uart->lock, K_FOREVER)
send_lock(x) ==
    /\ send[x].pc = "lock"
    /\ k_mutex_free(send[x].slot, x)
    /\ lock' = k_mutex_lock(send[x].slot, x)
    /\ send' = [send EXCEPT ![x].pc = "out"]
    /\ UNCHANGED <<real_uart, dev_data, tx_ringbuf, rx_ringbuf, workq, thr, stub,
                   io, hist, alloc, wire, rd, uart_rx, rxlog>>

\* uart_poll_out(real_uart->uart, *buf++) and the test of --size
send_out(x) ==
    LET f == send[x] IN
    /\ f.pc = "out"
    /\ wire' = [wire EXCEPT ![f.slot] =
                  Append(@, [by |-> x, call |-> f.calls, k |-> f.k + 1,
                             byte |-> Head(f.buf)])]
    /\ send' = [send EXCEPT ![x].buf = Tail(@), ![x].k = @ + 1,
                            ![x].pc = IF Len(f.buf) = 1 THEN "unlock" ELSE "out"]
    /\ UNCHANGED <<real_uart, dev_data, tx_ringbuf, rx_ringbuf, workq, thr, stub,
                   io, hist, alloc, lock, rd, uart_rx, rxlog>>

\* k_mutex_unlock(&real_uart->lock); return 0
send_unlock(x) ==
    /\ send[x].pc = "unlock"
    /\ lock' = k_mutex_unlock(send[x].slot)
    /\ send' = [send EXCEPT ![x].pc = "idle", ![x].ret = 0]
    /\ UNCHANGED <<real_uart, dev_data, tx_ringbuf, rx_ringbuf, workq, thr, stub,
                   io, hist, alloc, wire, rd, uart_rx, rxlog>>

NextSend ==
    \E x \in SendCtxs :
        \/ \E c \in Chans, buf \in Buffers : send_enter(x, c, buf)
        \/ send_lock(x)
        \/ send_out(x)
        \/ send_unlock(x)

SpecSend == InitAttached /\ [][NextSend]_vars

\* context x is between k_mutex_lock and k_mutex_unlock on slot s
InCritical(x, s) == send[x].pc \in {"out", "unlock"} /\ send[x].slot = s

\* C15: on every real UART at most one context is between taking and
\* releasing the lock, and it is the lock's owner; on the line the bytes of
\* each uart_mux_send() call form one run, in buffer order: a byte is either
\* the first of its call or follows the byte before it of the same call.
C15_SendExclusive ==
    \A s \in Slots :
        /\ \A x, y \in SendCtxs : (InCritical(x, s) /\ InCritical(y, s)) => x = y
        /\ \A x \in SendCtxs : InCritical(x, s) => lock[s] = x
        /\ \A i \in 1..Len(wire[s]) :
              \/ wire[s][i].k = 1
              \/ /\ i > 1
                 /\ wire[s][i - 1].by = wire[s][i].by
                 /\ wire[s][i - 1].call = wire[s][i].call
                 /\ wire[s][i - 1].k + 1 = wire[s][i].k

\* one context is in the middle of a buffer, holding the lock, while the
\* other waits for it; the line already carries a whole earlier call
C15_Witness ==
    \E x, y \in SendCtxs, s \in Slots :
        /\ x # y
        /\ send[x].pc = "out" /\ send[x].slot = s /\ send[x].k >= 1
        /\ send[y].pc = "lock" /\ send[y].slot = s
        /\ Len(wire[s]) >= 2
        /\ wire[s][1].by = y

(***************************************************************************)
(* Concurrent attach() calls on one real UART.                             *)
(***************************************************************************)
\* some thread is still inside the initialisation, or its roll back, of slot s
InitUnderWay(s) ==
    \E o \in Threads :
        /\ thr[o].slot = s
        /\ thr[o].pc \in {"create", "hw_init", "rollback_uart", "rollback_flag"}

\* C16: whenever an attach() call is about to call gsm_dlci_create() on a
\* slot, the slot has a mux, its init_done is set and no call is still
\* initialising it or rolling its initialisation back.
C16_DlciCreateOnReadyMux ==
    \A t \in Threads : thr[t].pc = "dlci" =>
        /\ real_uart[thr[t].slot].mux # NULL
        /\ real_uart[thr[t].slot].init_done
        /\ ~InitUnderWay(thr[t].slot)

\* C17: no two slots are bound to the same real UART.
C17_OneSlotPerUart ==
    \A s1, s2 \in Slots :
        (real_uart[s1].uart # NULL /\ real_uart[s1].uart = real_uart[s2].uart)
            => s1 = s2

(***************************************************************************)
(* uart_mux_fifo_read() in an application thread, one shared-memory access *)
(* per step, against uart_mux_recv() in the work queue thread.  The work   *)
(* queue thread is cooperative and of higher priority: it preempts the     *)
(* application between any two steps and runs uart_mux_recv() to its end.  *)
(***************************************************************************)
\* len = ring_buf_get(dev_data->rx_ringbuf, rx_data, size)
read_get(c, size) ==
    LET bytes == ring_buf_get_bytes(rx_ringbuf[c], size) IN
    /\ rd.pc = "idle"
    /\ rx_ringbuf' = [rx_ringbuf EXCEPT ![c] = ring_buf_get(@, size)]
    /\ rd' = [pc |-> "test", chan |-> c, len |-> Len(bytes), empty |-> FALSE]
    /\ hist' = [hist EXCEPT ![c].read = @ \o bytes]
    /\ UNCHANGED <<real_uart, dev_data, tx_ringbuf, workq, thr, stub, io,
                   alloc, lock, send, wire, uart_rx, rxlog>>

\* if (ring_buf_is_empty(dev_data->rx_ringbuf))
read_test ==
    /\ rd.pc = "test"
    /\ rd' = [rd EXCEPT !.pc = "clear",
                        !.empty = ring_buf_is_empty(rx_ringbuf[rd.chan])]
    /\ UNCHANGED <<real_uart, dev_data, tx_ringbuf, rx_ringbuf, workq, thr, stub,
                   io, hist, alloc, lock, send, wire, uart_rx, rxlog>>

\* dev_data->rx_ready = false; under the test, and return len
read_clear ==
    /\ rd.pc = "clear"
    /\ dev_data' = [dev_data EXCEPT ![rd.chan].rx_ready =
                      IF rd.empty THEN FALSE ELSE @]
    /\ io' = Io("read", rd.chan, rd.len, << >>, rd.empty)
    /\ rd' = [rd EXCEPT !.pc = "idle"]
    /\ UNCHANGED <<real_uart, tx_ringbuf, rx_ringbuf, workq, thr, stub,
                   hist, alloc, lock, send, wire, uart_rx, rxlog>>

NextRxRace ==
    \/ \E c \in UsedChans, data \in Buffers : uart_mux_recv(c, data)
    \/ \E c \in UsedChans, size \in 0..MaxLen : read_get(c, size)
    \/ read_test
    \/ read_clear

SpecRxRace == InitAttached /\ [][NextRxRace]_vars

\* C18: whenever no uart_mux_fifo_read() is under way (uart_mux_recv() runs
\* in one step), a channel whose rx ring holds bytes has rx_ready set.
C18_BufferedImpliesReady ==
    rd.pc = "idle" =>
        \A c \in Chans : ~ring_buf_is_empty(rx_ringbuf[c]) => dev_data[c].rx_ready

(***************************************************************************)
(* The raw receive path of a real UART: uart_mux_isr() stores what it      *)
(* reads from the UART in real_uart->rx_ringbuf and submits rx_work; the   *)
(* work queue thread runs uart_mux_rx_work(), which hands bytes to         *)
(* gsm_mux_recv_buf().  rxlog[s] keeps the bytes the ISR stored and the    *)
(* bytes handed to the mux.                                                *)
(***************************************************************************)
rx_work(s) == Work("rx_work", s)

\* the slots whose ISR init_real_uart() has registered
IsrSlots == {s \in Slots : real_uart[s].uart # NULL /\ real_uart[s].init_done}

\* one run of the ISR in which uart_fifo_read() yields the bytes of data, in
\* one or more chunks: each chunk is put into the ring, as much as fits, and
\* rx_work is submitted
uart_mux_isr(s, data) ==
    LET wrote == ring_buf_put_count(uart_rx[s], data) IN
    /\ Len(data) > 0
    /\ Len(rxlog[s].pushed) + wrote <= MaxDelivered
    /\ uart_rx' = [uart_rx EXCEPT ![s] = ring_buf_put(@, data)]
    /\ workq' = k_work_submit_to_queue(workq, rx_work(s))
    /\ rxlog' = [rxlog EXCEPT ![s].pushed = @ \o SubSeq(data, 1, wrote)]
    /\ UNCHANGED <<real_uart, dev_data, tx_ringbuf, rx_ringbuf, thr, stub, io,
                   hist, alloc, lock, send, wire, rd>>

\* one claim of the contiguous span, gsm_mux_recv_buf() on it, and the finish
uart_mux_rx_work(s) ==
    /\ workq # << >>
    /\ Head(workq) = rx_work(s)
    /\ workq' = Tail(workq)
    /\ LET span == ring_buf_get_claim(uart_rx[s], RingSize)
       IN  IF Len(span) = 0
             THEN /\ io' = Io("rx_work", s, 0, << >>, FALSE)
                  /\ UNCHANGED <<uart_rx, rxlog>>
             ELSE /\ io' = Io("rx_work", s, Len(span), span, TRUE)
                  /\ uart_rx' = [uart_rx EXCEPT
                                   ![s] = ring_buf_get_finish(@, Len(span))]
                  /\ rxlog' = [rxlog EXCEPT ![s].passed = @ \o span]
    /\ UNCHANGED <<real_uart, dev_data, tx_ringbuf, rx_ringbuf, thr, stub,
                   hist, alloc, lock, send, wire, rd>>

NextRawRx ==
    \/ \E s \in IsrSlots, data \in Buffers : uart_mux_isr(s, data)
    \/ \E s \in IsrSlots : uart_mux_rx_work(s)

SpecRawRx == InitAttached /\ [][NextRawRx]_vars

\* C19: the bytes handed to the mux are, in order, the first of the bytes
\* the ISR stored, and once the work queue thread has run every queued
\* rx_work, with no further interrupt, they are all of them.
C19_StoredBytesReachMux ==
    \A s \in Slots :
        /\ IsPrefix(rxlog[s].passed, rxlog[s].pushed)
        /\ ~IsPending(workq, rx_work(s)) => rxlog[s].passed = rxlog[s].pushed

\* C20: whenever the work queue thread runs a channel's cb_work, the
\* channel's callback pointer is not NULL at the call.
C20_CallbackSetWhenCalled ==
    [][\A c \in Chans : uart_mux_cb_work(c) => dev_data[c].cb # NULL]_vars

(***************************************************************************)
(* tx_ready over the life of an attached channel: fill, the TX work item,  *)
(* the irq enable/disable calls, the connect/disconnect notifications and  *)
(* a further attach() of the channel to its real UART.  The operations run *)
(* one at a time; attach() keeps its steps, so the others run in between.  *)
(***************************************************************************)
\* the real UARTs init_real_uart() has bound and initialised
BoundUarts == {real_uart[s].uart : s \in IsrSlots}

\* the buffers handed to fill here: nothing or one byte
OneByteBuffers == {<< >>, <<1>>}

\* no other thread is inside attach()
AloneInAttach(t) == \A o \in Threads \ {t} : thr[o].pc = "idle"

\* attach() of an attached channel to a bound real UART: the first loop of
\* init_real_uart() finds the slot, the CAS on init_done fails
reattach(t) ==
    \/ \E m \in UsedChans, u \in BoundUarts :
          AloneInAttach(t) /\ attach_enter(t, m, u)
    \/ AloneInAttach(t) /\ init_scan_bound(t)
    \/ AloneInAttach(t) /\ init_cas(t)
    \/ AloneInAttach(t) /\ attach_bind(t)
    \/ \E addr \in Addrs, ret \in {0} \cup {0 - e : e \in DlciErrors} :
          AloneInAttach(t) /\ attach_dlci(t, addr, ret)

NextTxReady ==
    \/ \E c \in UsedChans, tx_data \in OneByteBuffers : uart_mux_fifo_fill(c, tx_data)
    \/ \E c \in UsedChans : uart_mux_tx_work(c)
    \/ \E c \in UsedChans : uart_mux_irq_tx_enable(c)
    \/ \E c \in UsedChans : uart_mux_irq_tx_disable(c)
    \/ \E c \in UsedChans : uart_mux_irq_rx_enable(c)
    \/ \E c \in UsedChans : uart_mux_irq_rx_disable(c)
    \/ \E c \in UsedChans, connected \in BOOLEAN : dlci_created_cb(c, connected)
    \/ \E t \in Threads : reattach(t)

SpecTxReady == InitAttached /\ [][NextTxReady]_vars

\* a step of one of the operations that are not attach() and not fill
DrainEnableOrNotify(c) ==
    \/ uart_mux_tx_work(c)
    \/ uart_mux_irq_tx_enable(c)
    \/ uart_mux_irq_tx_disable(c)
    \/ uart_mux_irq_rx_enable(c)
    \/ uart_mux_irq_rx_disable(c)
    \/ \E connected \in BOOLEAN : dlci_created_cb(c, connected)

\* C21: tx_ready of a channel goes from false to true only in the step of
\* attach() that stores into the channel; a fill on a Connected channel
\* leaves it false; the TX work item, the irq enable/disable calls and the
\* connect/disconnect notifications leave every tx_ready as it is.
C21_TxReadyOnlyByAttach ==
    [][\A c \in Chans :
          /\ (~dev_data[c].tx_ready /\ dev_data'[c].tx_ready) =>
                \E t \in Threads : thr[t].mux_uart = c /\ attach_bind(t)
          /\ (/\ dev_data[c].status = UART_MUX_CONNECTED
              /\ \E tx_data \in OneByteBuffers : uart_mux_fifo_fill(c, tx_data)) =>
                ~dev_data'[c].tx_ready
          /\ DrainEnableOrNotify(c) =>
                \A d \in Chans : dev_data'[d].tx_ready = dev_data[d].tx_ready]_vars

\* on a channel that attach() was called on again, tx_ready is clear after a
\* fill, and still clear after the work item drained the ring, tx was
\* disabled and the DLCI was reported disconnected
C21_Witness ==
    \E c \in Chans :
        /\ \E t \in Threads : /\ thr[t].pc = "idle" /\ thr[t].mux_uart = c
                               /\ thr[t].ret = 0 /\ stub.attach_calls >= 1
        /\ ~dev_data[c].tx_ready
        /\ dev_data[c].status = UART_MUX_DISCONNECTED
        /\ ~dev_data[c].tx_enabled
        /\ ring_buf_is_empty(tx_ringbuf[c])
        /\ io = Io("tx_work", c, 1, <<1>>, TRUE)

=============================================================================
